---------------------------- MODULE Spec2Model ----------------------------
(***************************************************************************)
(* A state-machine model of the Teler <-> OpenAI realtime bridge.          *)
(*                                                                         *)
(* Modelled code:                                                          *)
(*   app/api/endpoints/calls.py   media_stream and its two nested relay    *)
(*                                coroutines recv_from_teler/send_to_teler *)
(*   app/utils/recv_from_teler.py, app/utils/send_to_teler.py              *)
(*   app/utils/teler_to_openai.py, app/utils/openai_to_teler.py            *)
(*                                                                         *)
(* impl says which code runs:                                              *)
(*   "calls"            media_stream: handshake, then the nested relays    *)
(*   "send_to_teler"    utils.recv_from_teler + utils.send_to_teler called *)
(*                      with two open connections                          *)
(*   "openai_to_teler"  utils.teler_to_openai + utils.openai_to_teler      *)
(*                      called with two open connections                   *)
(*                                                                         *)
(* Specifications:                                                         *)
(*   Spec, FairSpec   one call, all three relay implementations            *)
(*   ScenarioBSpec    telephony frames through the inbound relay           *)
(*   ScenarioCSpec    audio deltas through utils.send_to_teler             *)
(*   TwoCallsSpec     the outbound relays of two concurrent calls          *)
(*   ControlEventSpec one outbound relay fed control events and deltas     *)
(*   CodecSpec        AudioResampler and base64 decoding as functions      *)
(*                                                                         *)
(* asyncio is cooperative: a coroutine runs without interruption between   *)
(* two awaits, so every action below is the code between two suspension    *)
(* points.  A coroutine suspends in ws.receive_text(), in openai_ws.recv() *)
(* (also through "async for"), and in a send only when the transport       *)
(* applies backpressure.                                                   *)
(***************************************************************************)
EXTENDS Naturals, Sequences, FiniteSets

\* Bounds of the model (not program constants).
MaxAiMsgs == 3        \* messages the AI peer sends during one call
MaxTelerMsgs == 1     \* frames the telephony peer sends during one call

MaxCallMsgs == 3      \* messages the AI peer sends to each of two calls
MaxBytes == 60        \* longest buffer given to a resampler or decoder
ScenarioBFrames == 3  \* frames the telephony peer sends in scenario B
ScenarioCDeltas == 7  \* audio deltas the AI peer sends in scenario C

DeltaSamples == 240  \* samples (24 kHz) in one audio delta of the AI peer
FrameSamples == 160  \* samples (8 kHz) in one audio frame of the telephony peer

\* audio_resample.py line 34: factor = 24000 // 8000
ResampleFactor == 3
\* audio_resample.py line 41: signal.decimate(..., n=8, ftype='iir')
FilterOrder == 8

\* send_to_teler.py line 43: "if len(audio_buffer) >= 3"
ChunkThreshold == 3
\* chunk_id = 1 at the start of every outbound loop
InitialChunkId == 1

Impls == {"calls", "send_to_teler", "openai_to_teler"}

\* Message types the AI peer can send.  "delta" is response.output_audio.delta
\* with a decodable payload, "delta_old" is response.audio.delta (the older
\* event name, matched only by the second loop of the nested recv_from_teler),
\* "delta_bad" is response.output_audio.delta whose payload fails to decode.
AiMsgTypes == {"session.created", "error", "delta", "delta_old", "delta_bad",
               "input_audio_buffer.speech_started"}

\* Frames the telephony peer can send.  "audio" is a well-formed audio frame,
\* "audio_bad" an audio frame whose audio_b64 is not valid base64, "nonaudio"
\* has another type, "badframe" is text that json.loads rejects or an audio
\* frame without data.audio_b64 (KeyError outside the inner try).
TelerMsgTypes == {"audio", "audio_bad", "nonaudio", "badframe"}

VARIABLES
    impl,          \* which relay code runs (fixed per behaviour)
    apiKey,        \* settings.openai_api_key is non-empty
    pc,            \* position of media_stream
    neg,           \* state of the session negotiation
    hsResp,        \* type of the response read after session.update
    aiState,       \* openai_ws as media_stream sees it: none / open / closed
    aiPeer,        \* AI peer side: open / ok (closed 1000) / error (abnormal)
    aiIn,          \* messages from the AI peer not yet received
    aiSent,        \* number of messages the AI peer has sent
    aiOut,         \* messages sent to the AI peer, in order
    aiCloseCalls,  \* times media_stream closed openai_ws
    clientState,   \* ws.client_state
    appState,      \* ws.application_state
    wsCloseCalls,  \* times media_stream called ws.close()
    telerGone,     \* the telephony peer has disconnected
    wsIn,          \* frames from the telephony peer not yet received
    telerSent,     \* number of frames the telephony peer has sent
    telerLog,      \* the frames the telephony peer has sent, in order
    telerOut,      \* frames sent to the telephony peer, in order
    recvPc,        \* position of the inbound relay task
    sendPc,        \* position of the outbound relay task
    chunk_id,      \* chunk_id of each loop that sends audio frames
    audio_buffer,  \* audio_buffer of the outbound relay
    exitBuf,       \* unsent blocks in audio_buffer when the outbound loop stopped
    sendExit,      \* how the outbound relay stopped
    nAppended,     \* number of audio_buffer.append calls so far
    call,          \* two concurrent calls: the outbound relay of each
    codec          \* one application of a resampler or decoder function

mainVars == <<impl, apiKey, pc, neg, hsResp, aiState, aiPeer, aiIn, aiSent,
          aiOut, aiCloseCalls, clientState, appState, wsCloseCalls, telerGone,
          wsIn, telerSent, telerLog, telerOut, recvPc, sendPc, chunk_id,
          audio_buffer, exitBuf, sendExit, nAppended>>

\* call and codec are used by TwoCallsSpec, ControlEventSpec and CodecSpec
\* only; the actions
\* of one call leave them alone.
auxVars == <<call, codec>>

vars == <<mainVars, auxVars>>

aiVars == <<aiState, aiPeer, aiIn, aiSent, aiOut, aiCloseCalls>>
wsVars == <<clientState, appState, wsCloseCalls, telerGone, wsIn, telerSent,
            telerLog, telerOut>>
hsVars == <<pc, neg, hsResp>>
outVars == <<sendPc, chunk_id, audio_buffer, exitBuf, sendExit, nAppended>>

-----------------------------------------------------------------------------
\* State after "await ws.accept()" (calls.py line 116) for media_stream; for
\* the utils relays, the state in which their caller starts both coroutines
\* on two open connections.
InitMain ==
    /\ impl \in Impls
    /\ apiKey \in BOOLEAN
    /\ (impl # "calls") => apiKey
    /\ pc = IF impl = "calls" THEN "check_key" ELSE "caller"
    /\ neg = "Idle"
    /\ hsResp = "none"
    /\ aiState = IF impl = "calls" THEN "none" ELSE "open"
    /\ aiPeer = "open"
    /\ aiIn = <<>>
    /\ aiSent = 0
    /\ aiOut = <<>>
    /\ aiCloseCalls = 0
    /\ clientState = "CONNECTED"
    /\ appState = "CONNECTED"
    /\ wsCloseCalls = 0
    /\ telerGone = FALSE
    /\ wsIn = <<>>
    /\ telerSent = 0
    /\ telerLog = <<>>
    /\ telerOut = <<>>
    /\ recvPc = IF impl = "calls" THEN "idle" ELSE "receive_text"
    /\ sendPc = IF impl = "calls" THEN "idle" ELSE "ai_ready"
    /\ chunk_id = [send |-> InitialChunkId, recv |-> InitialChunkId]
    /\ audio_buffer = <<>>
    /\ exitBuf = <<>>
    /\ sendExit = "none"
    /\ nAppended = 0

CallIds == {1, 2}

\* A call whose outbound relay has not started.
CallNew ==
    [pc |-> "new", aiIn |-> <<>>, aiSent |-> 0, handled |-> <<>>,
     chunk_id |-> 0, audio_buffer |-> <<>>, telerOut |-> <<>>]

\* No function has been applied.
CodecIdle ==
    [op |-> "none", arg |-> 0, pad |-> 0, done |-> TRUE, bytes |-> 0,
     raised |-> FALSE]

Init ==
    /\ InitMain
    /\ call = [c \in CallIds |-> CallNew]
    /\ codec = CodecIdle

-----------------------------------------------------------------------------
(***************************************************************************)
(* The two peers.  Neither is obliged to do anything: these actions carry  *)
(* no fairness.  A message nobody will read changes nothing the program    *)
(* can observe, and one that arrives before its reader starts is read as   *)
(* if it had arrived just after: the peers send only while a coroutine is  *)
(* reading from their connection.                                          *)
(***************************************************************************)

\* media_stream, or for the utils relays one of the two coroutines, still runs.
Running ==
    /\ pc # "done"
    /\ (pc = "caller") => (recvPc # "done" \/ sendPc # "done")

\* The types drawn for the relay that runs: the utils relays handle
\* "session.created" and "delta_old" as they handle "error" (a log line at
\* most, no branch that changes state), so "error" stands for all three.
AiMsgTypesDrawn ==
    IF impl = "calls" THEN AiMsgTypes
                      ELSE AiMsgTypes \ {"session.created", "delta_old"}

\* A coroutine reads, or is about to read, from openai_ws.
AiIsRead ==
    \/ pc = "await_created"
    \/ sendPc \in {"ai_ready", "ai_recv", "sending"}
    \/ recvPc \in {"ai_ready", "ai_recv", "ai_sending"}

\* A message of the AI peer: its type, the order in which it was sent, and
\* for an audio delta the number of PCM16 samples in its payload.
AiMsg(t, k) ==
    [type |-> t, id |-> k,
     n |-> IF t \in {"delta", "delta_old"} THEN DeltaSamples ELSE 0]

\* A frame of the telephony peer.
TelerMsg(t, k) ==
    [type |-> t, id |-> k, n |-> IF t = "audio" THEN FrameSamples ELSE 0]

\* A message sent to the AI peer: src is the telephony frame it carries (0 for
\* none), n the number of samples in its audio.
ToAi(t, src, n) == [type |-> t, src |-> src, n |-> n]

\* The AI peer sends one message on the established connection, the max-th
\* at most.
AiPeerSendUpTo(t, max) ==
    /\ AiIsRead
    /\ aiState = "open"
    /\ aiPeer = "open"
    /\ aiSent < max
    /\ aiSent' = aiSent + 1
    /\ aiIn' = Append(aiIn, AiMsg(t, aiSent + 1))
    /\ UNCHANGED auxVars
    /\ UNCHANGED <<impl, apiKey, hsVars, aiState, aiPeer, aiOut, aiCloseCalls,
                   wsVars, recvPc, outVars>>

AiPeerSend(t) == AiPeerSendUpTo(t, MaxAiMsgs)

\* The AI peer closes the connection: cleanly ("ok", code 1000) or not
\* ("error").  Messages already sent stay readable.
AiPeerClose(mode) ==
    /\ Running
    /\ aiState = "open"
    /\ aiPeer = "open"
    /\ aiPeer' = mode
    /\ UNCHANGED auxVars
    /\ UNCHANGED <<impl, apiKey, hsVars, aiState, aiIn, aiSent, aiOut,
                   aiCloseCalls, wsVars, recvPc, outVars>>

\* The telephony peer sends one text frame, the max-th at most.
TelerPeerSendUpTo(t, max) ==
    /\ recvPc = "receive_text"
    /\ ~telerGone
    /\ appState = "CONNECTED"
    /\ telerSent < max
    /\ telerSent' = telerSent + 1
    /\ telerLog' = Append(telerLog, TelerMsg(t, telerSent + 1))
    /\ wsIn' = Append(wsIn, TelerMsg(t, telerSent + 1))
    /\ UNCHANGED auxVars
    /\ UNCHANGED <<impl, apiKey, hsVars, aiVars, clientState, appState,
                   wsCloseCalls, telerGone, telerOut, recvPc, outVars>>

TelerPeerSend(t) == TelerPeerSendUpTo(t, MaxTelerMsgs)

\* The telephony peer disconnects.  ws.client_state only changes when the
\* application receives the disconnect message.
TelerPeerDisconnect ==
    /\ Running
    /\ ~telerGone
    /\ telerGone' = TRUE
    /\ UNCHANGED auxVars
    /\ UNCHANGED <<impl, apiKey, hsVars, aiVars, clientState, appState,
                   wsCloseCalls, wsIn, telerSent, telerLog, telerOut, recvPc,
                   outVars>>

-----------------------------------------------------------------------------
(***************************************************************************)
(* media_stream (calls.py lines 113-336)                                   *)
(***************************************************************************)

\* calls.py line 154: response_data.get('type') == 'session.created'
SessionConfirmedAnyType(t) == TRUE
SessionConfirmed(t) == t = "session.created"

\* calls.py line 334: ws.client_state != WebSocketState.DISCONNECTED
ShouldCloseWsNever == FALSE
ShouldCloseWs == clientState # "DISCONNECTED"

\* Leaving "async with websockets.connect(...) as openai_ws" closes openai_ws.
ExitAsyncWith ==
    /\ aiState' = "closed"
    /\ aiCloseCalls' = aiCloseCalls + 1

\* lines 119-122: without an API key, close the telephony socket and return.
CheckApiKey ==
    /\ pc = "check_key"
    /\ IF apiKey
       THEN /\ pc' = "connect"
            /\ UNCHANGED <<appState, wsCloseCalls>>
       ELSE /\ wsCloseCalls' = wsCloseCalls + 1
            /\ appState' = "DISCONNECTED"
            /\ pc' = "finally"
    /\ UNCHANGED auxVars
    /\ UNCHANGED <<impl, apiKey, neg, hsResp, aiVars, clientState, telerGone,
                   wsIn, telerSent, telerLog, telerOut, recvPc, outVars>>

\* lines 127-131: the connection to the AI peer is established.
ConnectOpenAI ==
    /\ pc = "connect"
    /\ aiState' = "open"
    /\ pc' = "send_update"
    /\ UNCHANGED auxVars
    /\ UNCHANGED <<impl, apiKey, neg, hsResp, aiPeer, aiIn, aiSent, aiOut,
                   aiCloseCalls, wsVars, recvPc, outVars>>

\* lines 127-129 raising (InvalidStatusCode or another error): lines 323-332.
ConnectFails ==
    /\ pc = "connect"
    /\ pc' = "finally"
    /\ UNCHANGED auxVars
    /\ UNCHANGED <<impl, apiKey, neg, hsResp, aiVars, wsVars, recvPc, outVars>>

\* lines 133-148: send session.update.  A send on a connection the peer has
\* closed raises ConnectionClosed, which leaves the async with (line 331).
SendSessionUpdate ==
    /\ pc = "send_update"
    /\ IF aiPeer = "open"
       THEN /\ aiOut' = Append(aiOut, ToAi("session.update", 0, 0))
            /\ neg' = "ConfigSent"
            /\ pc' = "await_created"
            /\ UNCHANGED <<aiState, aiCloseCalls>>
       ELSE /\ ExitAsyncWith
            /\ pc' = "finally"
            /\ UNCHANGED <<aiOut, neg>>
    /\ UNCHANGED auxVars
    /\ UNCHANGED <<impl, apiKey, hsResp, aiPeer, aiIn, aiSent, wsVars, recvPc,
                   outVars>>

\* A handshake that retries: another response than session.created sends the
\* negotiation back to its start.
RecvSessionResponseRetry ==
    /\ pc = "await_created"
    /\ aiIn # <<>>
    /\ hsResp' = Head(aiIn).type
    /\ aiIn' = Tail(aiIn)
    /\ IF SessionConfirmed(Head(aiIn).type)
       THEN /\ neg' = "Confirmed"
            /\ pc' = "send_create"
       ELSE /\ neg' = "Idle"
            /\ pc' = "send_update"
    /\ UNCHANGED auxVars
    /\ UNCHANGED <<impl, apiKey, aiState, aiCloseCalls, aiPeer, aiSent, aiOut,
                   wsVars, recvPc, outVars>>

\* lines 150-166: read exactly one message; proceed on session.created,
\* return otherwise.
RecvSessionResponse ==
    /\ pc = "await_created"
    /\ aiIn # <<>>
    /\ hsResp' = Head(aiIn).type
    /\ aiIn' = Tail(aiIn)
    /\ IF SessionConfirmed(Head(aiIn).type)
       THEN /\ neg' = "Confirmed"
            /\ pc' = "send_create"
            /\ UNCHANGED <<aiState, aiCloseCalls>>
       ELSE /\ neg' = "Failed"
            /\ ExitAsyncWith
            /\ pc' = "finally"
    /\ UNCHANGED auxVars
    /\ UNCHANGED <<impl, apiKey, aiPeer, aiSent, aiOut, wsVars, recvPc,
                   outVars>>

\* line 151 raising ConnectionClosed: the peer closed before answering.
RecvSessionResponseClosed ==
    /\ pc = "await_created"
    /\ aiIn = <<>>
    /\ aiPeer # "open"
    /\ neg' = "Failed"
    /\ ExitAsyncWith
    /\ pc' = "finally"
    /\ UNCHANGED auxVars
    /\ UNCHANGED <<impl, apiKey, hsResp, aiPeer, aiIn, aiSent, aiOut, wsVars,
                   recvPc, outVars>>

\* lines 168-175: send response.create.
SendResponseCreate ==
    /\ pc = "send_create"
    /\ IF aiPeer = "open"
       THEN /\ aiOut' = Append(aiOut, ToAi("response.create", 0, 0))
            /\ neg' = "GreetingRequested"
            /\ pc' = "spawn"
            /\ UNCHANGED <<aiState, aiCloseCalls>>
       ELSE /\ ExitAsyncWith
            /\ pc' = "finally"
            /\ UNCHANGED <<aiOut, neg>>
    /\ UNCHANGED auxVars
    /\ UNCHANGED <<impl, apiKey, hsResp, aiPeer, aiIn, aiSent, wsVars, recvPc,
                   outVars>>

\* lines 319-321: create both relay tasks and wait in asyncio.gather.
StartRelays ==
    /\ pc = "spawn"
    /\ recvPc' = "receive_text"
    /\ sendPc' = "ai_ready"
    /\ neg' = "Active"
    /\ pc' = "gather"
    /\ UNCHANGED auxVars
    /\ UNCHANGED <<impl, apiKey, hsResp, aiVars, wsVars, chunk_id,
                   audio_buffer, exitBuf, sendExit, nAppended>>

\* line 321: asyncio.gather returns once BOTH tasks have finished; the
\* async with is then left.
GatherReturns ==
    /\ pc = "gather"
    /\ recvPc = "done"
    /\ sendPc = "done"
    /\ ExitAsyncWith
    /\ pc' = "finally"
    /\ UNCHANGED auxVars
    /\ UNCHANGED <<impl, apiKey, neg, hsResp, aiPeer, aiIn, aiSent, aiOut,
                   wsVars, recvPc, outVars>>

\* lines 333-336: close the telephony socket unless the client disconnected.
\* ws.close() sends a close message; Starlette raises RuntimeError when one
\* was already sent (application_state DISCONNECTED), after the call was made.
Finally ==
    /\ pc = "finally"
    /\ IF ShouldCloseWs
       THEN /\ wsCloseCalls' = wsCloseCalls + 1
            /\ appState' = "DISCONNECTED"
       ELSE UNCHANGED <<wsCloseCalls, appState>>
    /\ pc' = "done"
    /\ UNCHANGED auxVars
    /\ UNCHANGED <<impl, apiKey, neg, hsResp, aiVars, clientState, telerGone,
                   wsIn, telerSent, telerLog, telerOut, recvPc, outVars>>

-----------------------------------------------------------------------------
(***************************************************************************)
(* Shared helpers of the relays                                            *)
(***************************************************************************)

\* signal.decimate filters forward and backward (zero_phase) with a filter of
\* FilterOrder + 1 coefficients, padding the signal by 3 times that number
\* of samples at each end; it raises ValueError unless the signal is longer
\* than the padding.
PadLen == 3 * (FilterOrder + 1)

\* audio_resample.py lines 19-53, on a buffer of b bytes; the result is the
\* length in bytes of the buffer returned.  np.frombuffer raises on an odd
\* number of bytes and signal.decimate on a signal of at most PadLen samples
\* (an empty one included); the except clause returns the buffer it was
\* given.  Otherwise decimate keeps every third sample: ceil(n / 3) samples.
DownsampleBytes(b) ==
    IF b % 2 = 1 \/ b \div 2 <= PadLen
    THEN b
    ELSE 2 * (((b \div 2) + ResampleFactor - 1) \div ResampleFactor)

\* audio_resample.py lines 55-86: signal.resample to int(len * 3.0) samples.
\* np.frombuffer raises on an odd number of bytes and signal.resample on an
\* empty signal; the except clause returns the buffer it was given.
UpsampleBytes(b) ==
    IF b % 2 = 1 \/ b = 0 THEN b ELSE 2 * (ResampleFactor * (b \div 2))

\* The same on sample counts of PCM16 buffers.
Downsample(n) == DownsampleBytes(2 * n) \div 2

Upsample(n) == UpsampleBytes(2 * n) \div 2

\* base64.b64decode(audio_b64) (calls.py lines 190, 220, 274,
\* recv_from_teler.py line 29) on a payload of chars characters of the base64
\* alphabet followed by pad "=" characters: it raises binascii.Error when
\* the characters do not fill whole groups of 4 with the padding given.
B64Decode(chars, pad) ==
    LET r == chars % 4
        need == IF r = 0 THEN 0 ELSE 4 - r
    IN  IF r = 1 \/ pad < need
        THEN [raised |-> TRUE, bytes |-> 0]
        ELSE [raised |-> FALSE, bytes |-> (3 * chars) \div 4]

\* AudioResampler.resample_audio(pcm, orig_sr, target_sr): called by
\* utils/send_to_teler.py lines 35-36 but not defined in audio_resample.py;
\* modelled as the rate conversion the call asks for (rates in kHz).
ResampleAudio(n, orig_sr, target_sr) == (n * target_sr) \div orig_sr

\* AudioResampler.decode_audio(audio_b64) / encode_audio(pcm): called by
\* utils/send_to_teler.py lines 34, 37 and utils/openai_to_teler.py lines 32,
\* 36 but not defined in audio_resample.py; modelled as base64 decoding and
\* encoding, which succeed on the payload of a "delta" message and fail on
\* that of a "delta_bad" message.
DecodeAudioOk(m) == m.type = "delta"

\* An audio frame for the telephony peer (the dict given to send_json):
\* blocks are the deltas whose audio it carries, samples its sample count.
Frame(cid, blocks, samples, final) ==
    [type |-> "audio", chunk_id |-> cid, blocks |-> blocks,
     samples |-> samples, final |-> final]

RECURSIVE SumSamples(_)
SumSamples(buf) ==
    IF buf = <<>> THEN 0 ELSE Head(buf).n + SumSamples(Tail(buf))

\* b"".join(audio_buffer): the blocks in order.
BlockIds(buf) == [i \in 1..Len(buf) |-> buf[i].id]

\* A send to the telephony peer succeeds while the peer is there and no close
\* message was sent; otherwise send_json raises.
TelerSendOk == ~telerGone /\ appState = "CONNECTED"

\* openai_to_teler.py line 56: the event name is compared with a string that
\* ends in a blank.
SpeechStartedName == "input_audio_buffer.speech_started "

\* What an outbound loop does with one AI-peer message up to its send: buf is
\* audio_buffer after the append, send says whether a frame is handed to
\* send_json, ids and samples are that frame's content.
Handled(buf, send, ids, samples) ==
    [buf |-> buf, send |-> send, ids |-> ids, samples |-> samples]

\* calls.py lines 264-311 (nested send_to_teler): every decodable delta is
\* downsampled and sent at once; there is no buffer.
NestedOnMsgAnyType(m, buf) ==
    Handled(buf, TRUE, <<m.id>>, Downsample(m.n))
NestedOnMsg(m, buf) ==
    Handled(buf, m.type = "delta", <<m.id>>, Downsample(m.n))

\* utils/send_to_teler.py lines 24-82: decode, resample 24k -> 16k -> 8k,
\* append, send the joined buffer once it holds 3 blocks.
UtilsSendOnMsg(m, buf) ==
    IF DecodeAudioOk(m)
    THEN LET b == Append(buf, [id |-> m.id,
                     n |-> ResampleAudio(ResampleAudio(m.n, 24, 16), 16, 8)])
         IN  Handled(b, Len(b) >= ChunkThreshold, BlockIds(b), SumSamples(b))
    ELSE Handled(buf, FALSE, <<>>, 0)

\* utils/openai_to_teler.py lines 22-65: decode, downsample, append, send the
\* joined buffer after every append; line 56 clears the buffer.
OpenaiToTelerOnMsg(m, buf) ==
    IF DecodeAudioOk(m)
    THEN LET b == Append(buf, [id |-> m.id, n |-> Downsample(m.n)])
         IN  Handled(b, TRUE, BlockIds(b), SumSamples(b))
    ELSE IF m.type = SpeechStartedName
         THEN Handled(<<>>, FALSE, <<>>, 0)
         ELSE Handled(buf, FALSE, <<>>, 0)

OnAiMsg(m, buf) ==
    CASE impl = "calls" -> NestedOnMsg(m, buf)
      [] impl = "send_to_teler" -> UtilsSendOnMsg(m, buf)
      [] impl = "openai_to_teler" -> OpenaiToTelerOnMsg(m, buf)

\* Whether the code after the outbound loop sends the buffer.  how is "ok"
\* (async for ended: the peer closed with code 1000), "error" (an exception
\* left the loop: abnormal close, or recv called while another coroutine
\* waits in it) or "cancelled".
\*   calls.py: no buffer.
\*   utils/send_to_teler.py lines 84-94: inside the try, after the loop, so
\*     only when the loop ended without an exception.
\*   utils/openai_to_teler.py lines 71-85: in the finally clause.
FlushRuns(how) ==
    CASE impl = "calls" -> FALSE
      [] impl = "send_to_teler" -> how = "ok"
      [] impl = "openai_to_teler" -> TRUE

\* The final frame.  utils/send_to_teler.py line 87 downsamples the joined
\* 8 kHz buffer once more; utils/openai_to_teler.py sends it as it is.
FlushFrame(cid, buf) ==
    Frame(cid, BlockIds(buf),
          IF impl = "send_to_teler" THEN Downsample(SumSamples(buf))
                                    ELSE SumSamples(buf),
          TRUE)

\* The flush block (send_to_teler.py lines 85-93, openai_to_teler.py lines
\* 73-85) run on buffer buf with chunk counter cid, out being the frames sent
\* so far: "if audio_buffer:" sends the joined buffer; openai_to_teler.py
\* line 82 then empties the buffer, send_to_teler.py does not; neither
\* changes chunk_id.  When send_json raises nothing changes.
Flush(buf, out, cid) ==
    IF buf # <<>> /\ TelerSendOk
    THEN [buf |-> IF impl = "openai_to_teler" THEN <<>> ELSE buf,
          out |-> Append(out, FlushFrame(cid, buf)),
          cid |-> cid]
    ELSE [buf |-> buf, out |-> out, cid |-> cid]

-----------------------------------------------------------------------------
(***************************************************************************)
(* Inbound relay: calls.py lines 177-257 (nested recv_from_teler),         *)
(* utils/recv_from_teler.py, utils/teler_to_openai.py                      *)
(***************************************************************************)

\* Samples in the audio sent to the AI peer: calls.py lines 190-192 and
\* recv_from_teler.py lines 29-33 upsample; teler_to_openai.py line 30
\* forwards the payload unchanged.
InboundSamples(n) == IF impl = "openai_to_teler" THEN n ELSE Upsample(n)

\* Where the inbound coroutine goes when its receive loop stops: the nested
\* recv_from_teler continues with a second loop over openai_ws (calls.py
\* lines 207-257); the utils coroutines return.
AfterReceiveLoop == IF impl = "calls" THEN "ai_ready" ELSE "done"

\* calls.py line 183, recv_from_teler.py line 22, teler_to_openai.py line 22:
\* frames for which data.get("type") != "audio" are skipped.
IsAudioFrameAnyType(m) == TRUE
IsAudioFrame(m) == m.type \in {"audio", "audio_bad"}

\* calls.py line 190, recv_from_teler.py line 29: base64.b64decode(audio_b64)
\* raises on a malformed payload, inside the inner try; teler_to_openai.py
\* does not decode the payload.
PayloadAccepted(m) == impl = "openai_to_teler" \/ m.type = "audio"

\* One frame from the telephony peer (calls.py lines 181-200).
RecvFromTelerFrame ==
    /\ recvPc = "receive_text"
    /\ wsIn # <<>>
    /\ wsIn' = Tail(wsIn)
    /\ LET m == Head(wsIn) IN
       CASE m.type = "badframe" ->
              \* json.loads or data["data"] raises outside the inner try
              /\ recvPc' = AfterReceiveLoop
              /\ UNCHANGED aiOut
         [] /\ m.type # "badframe"
            /\ IsAudioFrame(m)
            /\ PayloadAccepted(m)
            /\ aiPeer = "open" ->
              /\ aiOut' = Append(aiOut, ToAi("input_audio_buffer.append",
                                             m.id, InboundSamples(m.n)))
              /\ UNCHANGED recvPc
         [] OTHER ->
              \* not audio: continue; b64decode or openai_ws.send raised:
              \* logged by the inner except clause
              UNCHANGED <<aiOut, recvPc>>
    /\ UNCHANGED auxVars
    /\ UNCHANGED <<impl, apiKey, hsVars, aiState, aiPeer, aiIn, aiSent,
                   aiCloseCalls, clientState, appState, wsCloseCalls,
                   telerGone, telerSent, telerLog, telerOut, outVars>>

\* ws.receive_text() raises WebSocketDisconnect (calls.py lines 201-202).
RecvFromTelerDisconnect ==
    /\ recvPc = "receive_text"
    /\ wsIn = <<>>
    /\ telerGone
    /\ clientState' = "DISCONNECTED"
    /\ recvPc' = AfterReceiveLoop
    /\ UNCHANGED auxVars
    /\ UNCHANGED <<impl, apiKey, hsVars, aiVars, appState, wsCloseCalls,
                   telerGone, wsIn, telerSent, telerLog, telerOut, outVars>>

\* calls.py line 210, "async for msg in openai_ws" in recv_from_teler: recv()
\* raises RuntimeError while another coroutine waits in recv() (line 256).
RecvLoop2CallRecv ==
    /\ recvPc = "ai_ready"
    /\ recvPc' = IF sendPc = "ai_recv" THEN "done" ELSE "ai_recv"
    /\ UNCHANGED auxVars
    /\ UNCHANGED <<impl, apiKey, hsVars, aiVars, wsVars, outVars>>

\* calls.py lines 211-253: a response.audio.delta is downsampled and sent with
\* this loop's own chunk_id; susp: send_json suspended under backpressure.
RecvLoop2Msg ==
    /\ recvPc = "ai_recv"
    /\ aiIn # <<>>
    /\ aiIn' = Tail(aiIn)
    /\ LET m == Head(aiIn) IN
       IF m.type = "delta_old" /\ TelerSendOk
       THEN /\ telerOut' = Append(telerOut,
                   Frame(chunk_id.recv, <<m.id>>, Downsample(m.n), FALSE))
            /\ \E susp \in BOOLEAN :
                 IF susp
                 THEN recvPc' = "ai_sending" /\ UNCHANGED chunk_id
                 ELSE /\ chunk_id' = [chunk_id EXCEPT !.recv = @ + 1]
                      /\ UNCHANGED recvPc
       ELSE UNCHANGED <<telerOut, chunk_id, recvPc>>
    /\ UNCHANGED auxVars
    /\ UNCHANGED <<impl, apiKey, hsVars, aiState, aiPeer, aiSent, aiOut,
                   aiCloseCalls, clientState, appState, wsCloseCalls,
                   telerGone, wsIn, telerSent, telerLog, sendPc, audio_buffer,
                   exitBuf, sendExit, nAppended>>

\* calls.py lines 229-230 after a suspended send, then back to line 210.
RecvLoop2Resume ==
    /\ recvPc = "ai_sending"
    /\ chunk_id' = [chunk_id EXCEPT !.recv = @ + 1]
    /\ recvPc' = "ai_ready"
    /\ UNCHANGED auxVars
    /\ UNCHANGED <<impl, apiKey, hsVars, aiVars, wsVars, sendPc, audio_buffer,
                   exitBuf, sendExit, nAppended>>

\* calls.py lines 254-257: the AI-peer stream ended.
RecvLoop2End ==
    /\ recvPc = "ai_recv"
    /\ aiIn = <<>>
    /\ aiPeer # "open"
    /\ recvPc' = "done"
    /\ UNCHANGED auxVars
    /\ UNCHANGED <<impl, apiKey, hsVars, aiVars, wsVars, outVars>>

-----------------------------------------------------------------------------
(***************************************************************************)
(* Outbound relay: calls.py lines 259-316 (nested send_to_teler),          *)
(* utils/send_to_teler.py, utils/openai_to_teler.py                        *)
(***************************************************************************)

\* The outbound coroutine stops: the code after its loop runs.
StopOutbound(how) ==
    /\ sendPc' = "done"
    /\ sendExit' = how
    \* while send_json is suspended the buffer still holds the blocks of
    \* the frame being sent: nothing in it is unsent
    /\ exitBuf' = IF sendPc = "sending" THEN <<>> ELSE audio_buffer
    /\ IF FlushRuns(how)
       THEN LET f == Flush(audio_buffer, telerOut, chunk_id.send)
            IN  telerOut' = f.out /\ audio_buffer' = f.buf
       ELSE UNCHANGED <<telerOut, audio_buffer>>
    /\ UNCHANGED <<chunk_id, nAppended>>

\* "async for msg in openai_ws": recv() raises RuntimeError while another
\* coroutine waits in recv(); the except Exception clause ends the loop.
SendToTelerCallRecv ==
    /\ sendPc = "ai_ready"
    /\ IF recvPc = "ai_recv"
       THEN StopOutbound("error")
       ELSE /\ sendPc' = "ai_recv"
            /\ UNCHANGED <<chunk_id, audio_buffer, exitBuf, sendExit,
                           nAppended, telerOut>>
    /\ UNCHANGED auxVars
    /\ UNCHANGED <<impl, apiKey, hsVars, aiVars, clientState, appState,
                   wsCloseCalls, telerGone, wsIn, telerSent, telerLog, recvPc>>

\* One message of the AI peer.  A frame is sent when the loop wants to send
\* and send_json does not raise; chunk_id += 1 and audio_buffer = [] follow
\* the send, at once or (susp) after send_json was suspended.
SendToTelerMsg ==
    /\ sendPc = "ai_recv"
    /\ aiIn # <<>>
    /\ aiIn' = Tail(aiIn)
    /\ LET r == OnAiMsg(Head(aiIn), audio_buffer) IN
       /\ nAppended' = IF Len(r.buf) > Len(audio_buffer) THEN nAppended + 1
                                                         ELSE nAppended
       /\ IF r.send /\ TelerSendOk
          THEN /\ telerOut' = Append(telerOut,
                      Frame(chunk_id.send, r.ids, r.samples, FALSE))
               /\ \E susp \in BOOLEAN :
                    IF susp
                    THEN /\ sendPc' = "sending"
                         /\ audio_buffer' = r.buf
                         /\ UNCHANGED chunk_id
                    ELSE /\ chunk_id' = [chunk_id EXCEPT !.send = @ + 1]
                         /\ audio_buffer' = <<>>
                         /\ UNCHANGED sendPc
          ELSE /\ audio_buffer' = r.buf
               /\ UNCHANGED <<telerOut, chunk_id, sendPc>>
    /\ UNCHANGED auxVars
    /\ UNCHANGED <<impl, apiKey, hsVars, aiState, aiPeer, aiSent, aiOut,
                   aiCloseCalls, clientState, appState, wsCloseCalls,
                   telerGone, wsIn, telerSent, telerLog, recvPc, exitBuf,
                   sendExit>>

\* The lines after send_json once a suspended send completes.
SendToTelerResume ==
    /\ sendPc = "sending"
    /\ chunk_id' = [chunk_id EXCEPT !.send = @ + 1]
    /\ audio_buffer' = <<>>
    /\ sendPc' = "ai_ready"
    /\ UNCHANGED auxVars
    /\ UNCHANGED <<impl, apiKey, hsVars, aiVars, wsVars, recvPc, exitBuf,
                   sendExit, nAppended>>

\* The AI-peer stream ended: cleanly (the loop ends) or abnormally
\* (ConnectionClosedError leaves the loop).
SendToTelerStreamEnd ==
    /\ sendPc = "ai_recv"
    /\ aiIn = <<>>
    /\ aiPeer # "open"
    /\ StopOutbound(aiPeer)
    /\ UNCHANGED auxVars
    /\ UNCHANGED <<impl, apiKey, hsVars, aiVars, clientState, appState,
                   wsCloseCalls, telerGone, wsIn, telerSent, telerLog, recvPc>>

\* The caller of a utils relay cancels the task: CancelledError is raised at
\* the await the coroutine is suspended in; "except Exception" does not
\* catch it.
CancelOutbound ==
    /\ impl # "calls"
    /\ sendPc \in {"ai_recv", "sending"}
    /\ StopOutbound("cancelled")
    /\ UNCHANGED auxVars
    /\ UNCHANGED <<impl, apiKey, hsVars, aiVars, clientState, appState,
                   wsCloseCalls, telerGone, wsIn, telerSent, telerLog, recvPc>>

-----------------------------------------------------------------------------
Handler ==
    \/ CheckApiKey
    \/ ConnectOpenAI
    \/ ConnectFails
    \/ SendSessionUpdate
    \/ RecvSessionResponse
    \/ RecvSessionResponseClosed
    \/ SendResponseCreate
    \/ StartRelays
    \/ GatherReturns
    \/ Finally

Inbound ==
    \/ RecvFromTelerFrame
    \/ RecvFromTelerDisconnect
    \/ RecvLoop2CallRecv
    \/ RecvLoop2Msg
    \/ RecvLoop2Resume
    \/ RecvLoop2End

Outbound ==
    \/ SendToTelerCallRecv
    \/ SendToTelerMsg
    \/ SendToTelerResume
    \/ SendToTelerStreamEnd

Peers ==
    \/ \E t \in AiMsgTypesDrawn : AiPeerSend(t)
    \/ \E mode \in {"ok", "error"} : AiPeerClose(mode)
    \/ \E t \in TelerMsgTypes : TelerPeerSend(t)
    \/ TelerPeerDisconnect
    \/ CancelOutbound

Next == Handler \/ Inbound \/ Outbound \/ Peers

Spec == Init /\ [][Next]_vars

\* The event loop runs every coroutine that is ready; the peers and the
\* caller owe nothing.  ConnectFails is the connection attempt's other
\* outcome and is left out of the fairness condition.
FairSpec ==
    /\ Spec
    /\ WF_vars(CheckApiKey) /\ WF_vars(ConnectOpenAI)
    /\ WF_vars(SendSessionUpdate) /\ WF_vars(RecvSessionResponse)
    /\ WF_vars(RecvSessionResponseClosed) /\ WF_vars(SendResponseCreate)
    /\ WF_vars(StartRelays) /\ WF_vars(GatherReturns) /\ WF_vars(Finally)
    /\ WF_vars(Inbound) /\ WF_vars(Outbound)

\* Scenario C: utils/send_to_teler.py runs on two open connections; the AI
\* peer sends audio deltas only and then closes the stream with code 1000;
\* the telephony peer stays connected.
InitC == Init /\ impl = "send_to_teler"

NextC ==
    \/ AiPeerSendUpTo("delta", ScenarioCDeltas)
    \/ AiPeerClose("ok")
    \/ SendToTelerCallRecv
    \/ SendToTelerMsg
    \/ SendToTelerResume
    \/ SendToTelerStreamEnd

ScenarioCSpec == InitC /\ [][NextC]_vars

(***************************************************************************)
(* Two concurrent calls.  Each call runs its own invocation of the         *)
(* outbound relay; chunk_id and audio_buffer are local variables of the    *)
(* coroutine (calls.py line 262, send_to_teler.py lines 20-21,             *)
(* openai_to_teler.py lines 17-18).  The module-level audio_resampler      *)
(* (calls.py line 18) is the one object the calls share; its two fields    *)
(* are assigned in __init__ only.                                          *)
(***************************************************************************)

\* The call whose chunk_id the relay of call c reads and writes.
ChunkOwnerShared(c) == 1
ChunkOwner(c) == c

\* The relay coroutine of call c starts: chunk_id = 1, audio_buffer = [].
CallStart(c) ==
    /\ call[c].pc = "new"
    /\ call' = [call EXCEPT ![c].pc = "running",
                            ![c].audio_buffer = <<>>,
                            ![ChunkOwner(c)].chunk_id = InitialChunkId]
    /\ UNCHANGED <<mainVars, codec>>

\* The AI peer of call c sends one message.
CallAiPeerSend(c, t) ==
    /\ call[c].pc = "running"
    /\ call[c].aiSent < MaxCallMsgs
    /\ call' = [call EXCEPT
                  ![c].aiSent = @ + 1,
                  ![c].aiIn = Append(@, AiMsg(t, call[c].aiSent + 1))]
    /\ UNCHANGED <<mainVars, codec>>

\* The relay of call c handles one message of its AI peer and sends the
\* frame, if any, to its telephony peer.
CallOnMsg(c) ==
    /\ call[c].pc = "running"
    /\ call[c].aiIn # <<>>
    /\ LET m == Head(call[c].aiIn)
           r == OnAiMsg(m, call[c].audio_buffer)
           o == ChunkOwner(c)
           got == [call EXCEPT ![c].aiIn = Tail(@),
                               ![c].handled = Append(@, m)]
       IN  call' =
             IF r.send
             THEN [got EXCEPT
                     ![c].telerOut = Append(@, Frame(call[o].chunk_id, r.ids,
                                                     r.samples, FALSE)),
                     ![o].chunk_id = @ + 1,
                     ![c].audio_buffer = <<>>]
             ELSE [got EXCEPT ![c].audio_buffer = r.buf]
    /\ UNCHANGED <<mainVars, codec>>

InitT == Init /\ apiKey

NextT ==
    \/ \E c \in CallIds : CallStart(c)
    \/ \E c \in CallIds :
         \E t \in {"delta", "input_audio_buffer.speech_started"} :
           CallAiPeerSend(c, t)
    \/ \E c \in CallIds : CallOnMsg(c)

TwoCallsSpec == InitT /\ [][NextT]_vars

(***************************************************************************)
(* One call whose AI peer sends control events between its audio deltas.   *)
(* The outbound loops only log them: calls.py lines 288-311,               *)
(* send_to_teler.py lines 59-82, openai_to_teler.py lines 59-65.           *)
(***************************************************************************)
ControlEvents ==
    {"session.created", "session.updated",
     "response.output_audio_transcript.delta", "response.completed", "error"}

NextE ==
    \/ CallStart(1)
    \/ \E t \in ControlEvents \cup {"delta"} : CallAiPeerSend(1, t)
    \/ CallOnMsg(1)

ControlEventSpec == InitT /\ [][NextE]_vars

(***************************************************************************)
(* The resampler and the decoder as functions: one input, one application. *)
(***************************************************************************)
CodecOps == {"upsample", "downsample", "down_up", "up_down", "b64decode"}

\* The function codec.op is applied to codec.arg: a buffer of arg bytes, or
\* for b64decode a payload of arg characters and pad "=" characters.
ApplyCodec ==
    /\ ~codec.done
    /\ LET res ==
             CASE codec.op = "upsample" ->
                    [raised |-> FALSE, bytes |-> UpsampleBytes(codec.arg)]
               [] codec.op = "downsample" ->
                    [raised |-> FALSE, bytes |-> DownsampleBytes(codec.arg)]
               [] codec.op = "down_up" ->
                    [raised |-> FALSE,
                     bytes |-> DownsampleBytes(UpsampleBytes(codec.arg))]
               [] codec.op = "up_down" ->
                    [raised |-> FALSE,
                     bytes |-> UpsampleBytes(DownsampleBytes(codec.arg))]
               [] codec.op = "b64decode" -> B64Decode(codec.arg, codec.pad)
       IN  codec' = [codec EXCEPT !.done = TRUE, !.bytes = res.bytes,
                                  !.raised = res.raised]
    /\ UNCHANGED <<mainVars, call>>

InitCodec ==
    /\ InitMain
    /\ impl = "calls"
    /\ apiKey
    /\ call = [c \in CallIds |-> CallNew]
    /\ codec \in {[op |-> o, arg |-> a, pad |-> p, done |-> FALSE,
                    bytes |-> 0, raised |-> FALSE] :
                     o \in CodecOps, a \in 0..MaxBytes, p \in 0..2}
    /\ (codec.op # "b64decode") => codec.pad = 0

NextCodec == ApplyCodec

CodecSpec == InitCodec /\ [][NextCodec]_vars

\* Scenario B: the call is set up (for media_stream: the handshake succeeds),
\* both peers stay connected, and the telephony peer sends audio frames and
\* frames of another type to the inbound relay.
InitB == Init /\ apiKey

NextB ==
    \/ CheckApiKey
    \/ ConnectOpenAI
    \/ SendSessionUpdate
    \/ AiPeerSendUpTo("session.created", 1)
    \/ RecvSessionResponse
    \/ SendResponseCreate
    \/ StartRelays
    \/ \E t \in {"audio", "nonaudio"} : TelerPeerSendUpTo(t, ScenarioBFrames)
    \/ RecvFromTelerFrame

ScenarioBSpec == InitB /\ [][NextB]_vars

-----------------------------------------------------------------------------
(***************************************************************************)
(* Properties                                                              *)
(***************************************************************************)

SentToAi(t) == \E i \in 1..Len(aiOut) : aiOut[i].type = t

\* C1: in media_stream the handshake runs in the order session.update (sent),
\* session.created (received), response.create (sent), and until
\* session.created has been read neither relay task has been started, no
\* input_audio_buffer.append has been sent to the AI peer and no frame has
\* been sent to the telephony peer.
C1_HandshakeBeforeRelay ==
    impl = "calls" =>
      /\ (hsResp # "none") => (aiOut # <<>> /\ aiOut[1].type = "session.update")
      /\ \A i \in 1..Len(aiOut) :
           aiOut[i].type = "response.create" =>
             (i = 2 /\ aiOut[1].type = "session.update"
                    /\ hsResp = "session.created")
      /\ (hsResp # "session.created") =>
           /\ recvPc = "idle"
           /\ sendPc = "idle"
           /\ ~SentToAi("input_audio_buffer.append")
           /\ telerOut = <<>>

\* C1 witness: after a confirmed handshake both relays ran, audio went to the
\* AI peer and a frame went to the telephony peer.
C1_Witness ==
    /\ impl = "calls"
    /\ hsResp = "session.created"
    /\ SentToAi("response.create")
    /\ SentToAi("input_audio_buffer.append")
    /\ telerOut # <<>>

\* C2: when the one response read after session.update has a type other than
\* session.created, response.create is never sent, neither relay task is ever
\* started, the AI-peer connection is closed, and once media_stream has
\* returned the telephony connection is closed too.
C2_HandshakeFailureAborts ==
    (impl = "calls" /\ hsResp \notin {"none", "session.created"}) =>
      /\ neg = "Failed"
      /\ pc \in {"finally", "done"}
      /\ ~SentToAi("response.create")
      /\ recvPc = "idle"
      /\ sendPc = "idle"
      /\ aiState = "closed"
      /\ (pc = "done") => (appState = "DISCONNECTED")

\* C2 witness: media_stream returned after reading an error response.
C2_Witness ==
    /\ impl = "calls"
    /\ hsResp = "error"
    /\ pc = "done"
    /\ ~telerGone

\* C3: the wait for the handshake confirmation is bounded: if the AI peer
\* sends nothing after session.update, call setup leaves the wait and ends
\* Failed, both connections closed, no relay started.
C3_HandshakeWaitIsBounded ==
    (pc = "await_created") ~>
        \/ aiSent > 0
        \/ /\ neg = "Failed"
           /\ pc = "done"
           /\ aiState = "closed"
           /\ appState = "DISCONNECTED"
           /\ recvPc = "idle"
           /\ sendPc = "idle"

\* C4: once a call is Active, when either relay task has terminated the call
\* reaches Closed (the other relay stopped, both connections closed) without
\* the other peer disconnecting or sending anything.
C4_FirstToFinishTeardown ==
    (neg = "Active" /\ (recvPc = "done" \/ sendPc = "done")) ~>
        (pc = "done" /\ recvPc = "done" /\ sendPc = "done"
                     /\ aiState = "closed")

\* C5: on every exit path of media_stream each connection that was opened is
\* closed exactly once: close is not issued twice on either connection, and
\* neither is left open when media_stream has returned.
C5_EachConnectionClosedOnce ==
    impl = "calls" =>
      /\ wsCloseCalls <= 1
      /\ aiCloseCalls <= 1
      /\ (pc = "done") =>
           /\ aiState # "open"
           /\ (appState = "DISCONNECTED" \/ clientState = "DISCONNECTED")

\* C6: within one call the chunk_id values of the audio frames sent to the
\* telephony peer, in send order over all tasks, are consecutive: each is the
\* previous one plus 1.
C6_ChunkIdsConsecutive ==
    impl \in {"calls", "send_to_teler"} =>
      \A i \in 1..(Len(telerOut) - 1) :
        telerOut[i + 1].chunk_id = telerOut[i].chunk_id + 1

\* The threshold of the outbound relay: 3 blocks in utils/send_to_teler.py,
\* every block in utils/openai_to_teler.py.
Threshold == IF impl = "send_to_teler" THEN ChunkThreshold ELSE 1

C8_SpeechStartedSendsClear ==
    [][(SendToTelerMsg
          /\ Head(aiIn).type = "input_audio_buffer.speech_started"
          /\ TelerSendOk)
        => (/\ Len(telerOut') = Len(telerOut) + 1
            /\ telerOut'[Len(telerOut')].type = "clear")]_vars

C11_ScenarioC ==
    LET full == ScenarioCDeltas - 1
        per == DeltaSamples \div 3
        TwoFrames ==
            /\ Len(telerOut) >= 2
            /\ telerOut[1].chunk_id = 0
            /\ telerOut[1].samples = ChunkThreshold * per
            /\ telerOut[2].chunk_id = 1
            /\ telerOut[2].samples = ChunkThreshold * per
    IN  /\ (nAppended = full /\ sendPc \in {"ai_ready", "ai_recv"}) =>
               (TwoFrames /\ Len(telerOut) = 2)
        /\ (nAppended = ScenarioCDeltas /\ sendPc = "done"
                                        /\ sendExit = "ok") =>
               /\ TwoFrames
               /\ Len(telerOut) = 3
               /\ telerOut[3].blocks = <<ScenarioCDeltas>>
               /\ telerOut[3].samples = per

\* The frames of the telephony peer that the inbound relay has received.
ConsumedFrames == SubSeq(telerLog, 1, Len(telerLog) - Len(wsIn))

IsAppend(m) == m.type = "input_audio_buffer.append"

\* The input_audio_buffer.append messages sent to the AI peer, in order.
AudioAppends == SelectSeq(aiOut, IsAppend)

\* One append per audio frame of frames, in order, with factor times its
\* sample count.
RECURSIVE AppendPerAudioFrame(_, _)
AppendPerAudioFrame(frames, factor) ==
    IF frames = <<>> THEN <<>>
    ELSE LET f == Head(frames)
             rest == AppendPerAudioFrame(Tail(frames), factor)
         IN  IF f.type = "audio"
             THEN <<ToAi("input_audio_buffer.append", f.id, factor * f.n)>>
                    \o rest
             ELSE rest

\* C12: scenario B.  The AI peer has received exactly one
\* input_audio_buffer.append per audio frame the inbound relay has received
\* from the telephony peer, in the order of the frames, each with 3 times the
\* sample count of its frame.
C12_ScenarioB == AudioAppends = AppendPerAudioFrame(ConsumedFrames, 3)

\* C13: a telephony-peer frame whose type is not "audio" is ignored by the
\* inbound relay: handling it sends nothing to either peer, changes no relay
\* state, and leaves the relay waiting for the next frame.
C13_NonAudioIgnored ==
    [][(RecvFromTelerFrame /\ Head(wsIn).type = "nonaudio")
        => /\ aiOut' = aiOut
           /\ telerOut' = telerOut
           /\ recvPc' = "receive_text"
           /\ UNCHANGED <<outVars, aiState, clientState, appState>>]_vars

\* C13 witness: the relay received a frame of another type, sent nothing for
\* it, and then received and forwarded the audio frame that followed.
C13_Witness ==
    /\ Len(ConsumedFrames) = 2
    /\ ConsumedFrames[1].type = "nonaudio"
    /\ ConsumedFrames[2].type = "audio"
    /\ Len(AudioAppends) = 1
    /\ AudioAppends[1].src = 2
    /\ recvPc = "receive_text"

\* C14: a decode error on one inbound message is recovered locally.  After a
\* telephony-peer audio frame with a malformed base64 payload, or one whose
\* payload cannot be extracted, the inbound relay still waits for the next
\* frame; after an AI-peer audio delta that fails to decode, the outbound
\* relay still reads AI-peer messages.
C14_DecodeErrorRecovered ==
    [][/\ (RecvFromTelerFrame /\ Head(wsIn).type \in {"audio_bad", "badframe"})
          => recvPc' = "receive_text"
       /\ (SendToTelerMsg /\ Head(aiIn).type = "delta_bad")
          => sendPc' = "ai_recv"]_vars

\* C15: an exception that leaves a relay's processing loop ends the relay
\* task: after json.loads (or the payload lookup) raised in the inbound
\* relay, and after recv() raised in the outbound relay, the task is done and
\* reads from and writes to neither peer any more.
C15_ExceptionEndsRelay ==
    [][/\ (RecvFromTelerFrame /\ Head(wsIn).type = "badframe")
          => recvPc' = "done"
       /\ (SendToTelerCallRecv /\ recvPc = "ai_recv")
          => sendPc' = "done"
       /\ (SendToTelerStreamEnd /\ aiPeer = "error")
          => sendPc' = "done"]_vars

\* Number of messages of type t sent to the AI peer.
CountSentToAi(t) == Cardinality({i \in 1..Len(aiOut) : aiOut[i].type = t})

\* The steps of the negotiation.
NegStep(a, b) ==
    \/ a = "Idle" /\ b = "ConfigSent"
    \/ a = "ConfigSent" /\ b = "Confirmed"
    \/ a = "Confirmed" /\ b = "GreetingRequested"
    \/ a = "GreetingRequested" /\ b = "Active"
    \/ a = "ConfigSent" /\ b = "Failed"

\* C16: the handshake of media_stream is one-shot.  The negotiation moves
\* only along Idle -> ConfigSent -> Confirmed -> GreetingRequested -> Active
\* or Idle -> ConfigSent -> Failed; one session.update has been sent once it
\* left Idle and never a second; response.create has been sent at most once,
\* and only in GreetingRequested and Active; exactly one AI-peer message is
\* read to decide; nothing is sent to the AI peer once it is Failed.
C16_HandshakeOneShot ==
    /\ [](impl = "calls" =>
           /\ CountSentToAi("session.update") = IF neg = "Idle" THEN 0 ELSE 1
           /\ CountSentToAi("response.create") =
                 IF neg \in {"GreetingRequested", "Active"} THEN 1 ELSE 0
           /\ (recvPc = "idle" /\ sendPc = "idle") =>
                 aiSent - Len(aiIn) = IF hsResp = "none" THEN 0 ELSE 1
           /\ (neg \in {"Idle", "ConfigSent"}) => hsResp = "none"
           /\ (neg \in {"Confirmed", "GreetingRequested", "Active"}) =>
                 hsResp = "session.created"
           /\ (neg = "Failed") => aiOut = <<ToAi("session.update", 0, 0)>>)
    /\ [][(neg' # neg) => NegStep(neg, neg')]_vars

\* C16 witness: a call that became Active and is over: one session.update,
\* one response.create.
C16_Witness ==
    /\ impl = "calls"
    /\ neg = "Active"
    /\ pc = "done"
    /\ CountSentToAi("session.update") = 1
    /\ CountSentToAi("response.create") = 1

\* An outbound relay running alone: its state after one more message, and
\* after a sequence of messages.
SoloStep(st, m) ==
    LET r == OnAiMsg(m, st.audio_buffer) IN
    IF r.send
    THEN [chunk_id |-> st.chunk_id + 1, audio_buffer |-> <<>>,
          telerOut |-> Append(st.telerOut,
                              Frame(st.chunk_id, r.ids, r.samples, FALSE))]
    ELSE [st EXCEPT !.audio_buffer = r.buf]

RECURSIVE SoloRun(_, _)
SoloRun(st, msgs) ==
    IF msgs = <<>> THEN st ELSE SoloRun(SoloStep(st, Head(msgs)), Tail(msgs))

C18_MalformedGivesEmpty ==
    (/\ codec.done
     /\ codec.op \in {"upsample", "downsample"}
     /\ (codec.arg = 0 \/ codec.arg % 2 = 1))
    => (~codec.raised /\ codec.bytes = 0)

\* C19: base64 decoding of an audio payload never raises: a payload whose
\* length is not a multiple of 4 is padded and decoded to the bytes its
\* characters hold, and one that cannot be decoded even then (one character
\* more than a multiple of 4) gives an empty buffer.
C19_Base64PadsAndDecodes ==
    (codec.done /\ codec.op = "b64decode") =>
      /\ ~codec.raised
      /\ codec.bytes = IF codec.arg % 4 = 1 THEN 0
                                            ELSE (3 * codec.arg) \div 4

\* C20: for a PCM16 buffer of n >= 1 samples, upsample gives 3n samples,
\* downsample gives ceil(n / 3) samples, downsample(upsample(x)) has n
\* samples, and upsample(downsample(x)) has n samples rounded up to a
\* multiple of 3.
C20_ResampleLengths ==
    (codec.done /\ codec.arg >= 2 /\ codec.arg % 2 = 0) =>
      LET n == codec.arg \div 2
          out == codec.bytes \div 2
      IN  /\ codec.bytes % 2 = 0
          /\ (codec.op = "upsample") => out = 3 * n
          /\ (codec.op = "downsample") => out = (n + 2) \div 3
          /\ (codec.op = "down_up") => out = n
          /\ (codec.op = "up_down") => out = 3 * ((n + 2) \div 3)

\* C21: while a call of media_stream is Active, the inbound relay task reads
\* only from the telephony connection: it is never waiting to receive from
\* the AI-peer connection nor sending a frame to the telephony peer, and the
\* two tasks are never both waiting to receive from the AI-peer connection.
C21_OneReaderPerConnection ==
    (impl = "calls" /\ neg = "Active") =>
      /\ recvPc \notin {"ai_recv", "ai_sending"}
      /\ ~(recvPc = "ai_recv" /\ sendPc = "ai_recv")

RECURSIVE SentBlocks(_)
SentBlocks(out) ==
    IF out = <<>> THEN <<>> ELSE Head(out).blocks \o SentBlocks(Tail(out))

C26_NoSendAfterDisconnect ==
    [][impl = "calls" =>
         /\ ~(/\ clientState = "DISCONNECTED"
              /\ \/ SendToTelerMsg /\ Head(aiIn).type = "delta"
                 \/ RecvLoop2Msg /\ Head(aiIn).type = "delta_old")
         /\ ~(/\ aiPeer # "open" /\ sendPc = "done"
              /\ RecvFromTelerFrame
              /\ IsAudioFrame(Head(wsIn)) /\ PayloadAccepted(Head(wsIn)))]_vars

=============================================================================
